---- MODULE Spec2Model ----
(***************************************************************************)
(* Model of the shift-to-pay engine of utils.py: parse_time,               *)
(* parse_duration, build_rate_constants, _split_shift_by_midnight,         *)
(* _ot_multiplier_for_day and calculate_row.                               *)
(*                                                                         *)
(* Units.  Python computes with floats; the model computes the same        *)
(* quantities exactly, as integers:                                        *)
(*   - a text is a sequence of one-character strings;                      *)
(*   - a time of day is a number of minutes 0..1439, a datetime is         *)
(*     date * 1440 + minutes, a date is a day number whose weekday is      *)
(*     date % 7 (0 = Monday ... 6 = Sunday), None is -1;                   *)
(*   - a duration in hours is kept in minutes (hours * 60);                *)
(*   - a rate is kept in 1e-5 dollars (the table's 5 decimals);            *)
(*   - a money amount rounded to 2 decimals is kept in cents.              *)
(* round(x, n) is round-half-even on the exact value.  No input of the     *)
(* model produces an exact tie, so the tie rule is never decisive.         *)
(* Divisors: 1000 takes rate units to cents; 60000 does so for a product   *)
(* with minutes; 120000 for a product with minutes and a half-multiplier;  *)
(* 100000 for a product with hundredths of an hour.                        *)
(***************************************************************************)
EXTENDS Integers, Sequences, FiniteSets

None == -1

MinutesPerHour == 60
MinutesPerDay == 1440

\* Python's round(): n / d rounded to the nearest integer, ties to even.
Round(n, d) ==
    LET q == n \div d
        r == n % d
    IN  IF 2 * r < d THEN q
        ELSE IF 2 * r > d THEN q + 1
        ELSE IF q % 2 = 0 THEN q ELSE q + 1

\* x * y / d rounded like Round, for y >= 0, without forming x * y (TLC
\* integers are 32 bits wide): the product is kept as quotient and remainder
\* by d.
WideMul(x, y, d) ==
    [q |-> x * (y \div d) + (x * (y % d)) \div d, r |-> (x * (y % d)) % d]

WideAdd(a, b) == [q |-> a.q + b.q, r |-> a.r + b.r]

WideRound(w, d) ==
    LET q == w.q + w.r \div d
        r == w.r % d
    IN  IF 2 * r < d THEN q
        ELSE IF 2 * r > d THEN q + 1
        ELSE IF q % 2 = 0 THEN q ELSE q + 1

RoundMul(x, y, d) == WideRound(WideMul(x, y, d), d)

(***************************************************************************)
(* Text helpers: str.strip, str.upper, str.isdigit, int().                 *)
(***************************************************************************)
Digits == {"0", "1", "2", "3", "4", "5", "6", "7", "8", "9"}

DigitVal(c) ==
    CASE c = "0" -> 0 [] c = "1" -> 1 [] c = "2" -> 2 [] c = "3" -> 3
      [] c = "4" -> 4 [] c = "5" -> 5 [] c = "6" -> 6 [] c = "7" -> 7
      [] c = "8" -> 8 [] c = "9" -> 9

\* str.upper on the letters the inputs use.
UpperChar(c) ==
    CASE c = "a" -> "A" [] c = "d" -> "D" [] c = "o" -> "O" [] c = "f" -> "F"
      [] OTHER -> c

Upper(text) == [i \in 1..Len(text) |-> UpperChar(text[i])]

RECURSIVE LStrip(_)
LStrip(text) ==
    IF text # <<>> /\ Head(text) = " " THEN LStrip(Tail(text)) ELSE text

RECURSIVE RStrip(_)
RStrip(text) ==
    IF text # <<>> /\ text[Len(text)] = " "
    THEN RStrip(SubSeq(text, 1, Len(text) - 1))
    ELSE text

Strip(text) == RStrip(LStrip(text))

\* str.isdigit: non-empty and all characters digits.
IsDigit(text) == text # <<>> /\ \A i \in 1..Len(text) : text[i] \in Digits

\* int(text) for a text that IsDigit.
RECURSIVE ToInt(_)
ToInt(text) ==
    IF text = <<>> THEN 0
    ELSE 10 * ToInt(SubSeq(text, 1, Len(text) - 1)) + DigitVal(text[Len(text)])

HasColon(text) == \E i \in 1..Len(text) : text[i] = ":"

FirstColon(text) == CHOOSE i \in 1..Len(text) :
    text[i] = ":" /\ \A j \in 1..(i - 1) : text[j] # ":"

NumColons(text) == Cardinality({i \in 1..Len(text) : text[i] = ":"})

BeforeColon(text) == SubSeq(text, 1, FirstColon(text) - 1)
AfterColon(text) == SubSeq(text, FirstColon(text) + 1, Len(text))

\* text[:-2] and text[-2:]
AllButLast2(text) == SubSeq(text, 1, Len(text) - 2)
Last2(text) ==
    IF Len(text) <= 2 THEN text ELSE SubSeq(text, Len(text) - 1, Len(text))

(***************************************************************************)
(* parse_time: a time of day in minutes, or None.                          *)
(***************************************************************************)
\* time(h, m) raises ValueError outside 0..23 / 0..59.
TimeOf(h, m) == IF h <= 23 /\ m <= 59 THEN h * MinutesPerHour + m ELSE None

\* datetime.strptime(text, "%H:%M"): one or two digits, a colon, one or two
\* digits, nothing else; anything else raises ValueError.
Strptime(text) ==
    LET hh == BeforeColon(text)
        mm == AfterColon(text)
    IN  IF IsDigit(hh) /\ Len(hh) <= 2 /\ IsDigit(mm) /\ Len(mm) <= 2
        THEN TimeOf(ToInt(hh), ToInt(mm))
        ELSE None

parse_time(raw) ==
    LET text == Strip(raw)
    IN  IF text = <<>> THEN None
        ELSE IF HasColon(text) THEN Strptime(text)
        ELSE IF IsDigit(text) /\ Len(text) \in {3, 4}
             THEN TimeOf(ToInt(AllButLast2(text)), ToInt(Last2(text)))
        ELSE None

(***************************************************************************)
(* parse_duration: decimal hours, kept in minutes; 0 when empty or not     *)
(* parseable.  ParseDuration tells the two apart: ok is FALSE on the       *)
(* paths that return the fallback 0 (empty text, the except clause, the    *)
(* final return).                                                          *)
(***************************************************************************)
ParseDuration(raw) ==
    LET text == Strip(raw)
        fail == [ok |-> FALSE, minutes |-> 0]
    IN  IF text = <<>> THEN fail
        ELSE IF HasColon(text)
             THEN \* h, m = map(int, text.split(":")): exactly two ints
                  IF NumColons(text) = 1 /\ IsDigit(BeforeColon(text))
                     /\ IsDigit(AfterColon(text))
                  THEN [ok |-> TRUE,
                        minutes |-> ToInt(BeforeColon(text)) * MinutesPerHour
                                    + ToInt(AfterColon(text))]
                  ELSE fail
        ELSE IF IsDigit(text)
             THEN \* int(text[:-2]) raises on the empty string
                  IF Len(text) >= 3
                  THEN [ok |-> TRUE,
                        minutes |-> ToInt(AllButLast2(text)) * MinutesPerHour
                                    + ToInt(Last2(text))]
                  ELSE fail
        ELSE fail

parse_duration(raw) == ParseDuration(raw).minutes

(***************************************************************************)
(* Rate table.                                                             *)
(***************************************************************************)
DEFAULT_BASE_RATES ==
    [ordinary |-> 4981842, afternoon_penalty |-> 484000, night_penalty |-> 569000]

RateNames ==
    {"Afternoon Shift", "Early Morning", "Night Shift", "Special Loading",
     "OT 150%", "OT 200%", "ADO Adjustment", "Sat Loading 50%",
     "Sun Loading 100%", "Public Holiday", "PH Loading 50%", "PH Loading 100%",
     "Sick With MC", "Ordinary Hours"}

\* The table's values, each round(v, 5): x * 1.5 and x * 0.5 are halves of
\* integers in 1e-5 units.
build_rate_constants(base) ==
    LET ordinary == base.ordinary
        aft == base.afternoon_penalty
        night == base.night_penalty
    IN  [k \in RateNames |->
           CASE k = "Afternoon Shift" -> aft
             [] k = "Early Morning" -> aft
             [] k = "Night Shift" -> night
             [] k = "Special Loading" -> night
             [] k = "OT 150%" -> Round(ordinary * 3, 2)
             [] k = "OT 200%" -> ordinary * 2
             [] k = "ADO Adjustment" -> ordinary
             [] k = "Sat Loading 50%" -> Round(ordinary, 2)
             [] k = "Sun Loading 100%" -> ordinary
             [] k = "Public Holiday" -> ordinary
             [] k = "PH Loading 50%" -> Round(ordinary, 2)
             [] k = "PH Loading 100%" -> ordinary
             [] k = "Sick With MC" -> ordinary
             [] k = "Ordinary Hours" -> ordinary]

rate_constants == build_rate_constants(DEFAULT_BASE_RATES)

(***************************************************************************)
(* Helpers for the OT / loading split.                                     *)
(***************************************************************************)
DateOf(dt) == dt \div MinutesPerDay
Weekday(dt) == DateOf(dt) % 7

\* _hours_between, in minutes
_hours_between(a, b) == b - a

NextMidnight(cur) == (DateOf(cur) + 1) * MinutesPerDay

\* Variant: a segment that crosses midnight stops a minute short of it.
RECURSIVE SplitLeavingGap(_, _)
SplitLeavingGap(start_dt, end_dt) ==
    IF DateOf(start_dt) < DateOf(end_dt)
    THEN <<<<start_dt, NextMidnight(start_dt) - 1>>>>
         \o SplitLeavingGap(NextMidnight(start_dt), end_dt)
    ELSE <<<<start_dt, end_dt>>>>

\* Variant: the cursor advances by 24 hours instead of to the next midnight.
RECURSIVE SplitEvery24Hours(_, _)
SplitEvery24Hours(start_dt, end_dt) ==
    IF DateOf(start_dt) < DateOf(end_dt)
    THEN <<<<start_dt, start_dt + MinutesPerDay>>>>
         \o SplitEvery24Hours(start_dt + MinutesPerDay, end_dt)
    ELSE <<<<start_dt, end_dt>>>>

RECURSIVE _split_shift_by_midnight(_, _)
_split_shift_by_midnight(start_dt, end_dt) ==
    IF DateOf(start_dt) < DateOf(end_dt)
    THEN <<<<start_dt, NextMidnight(start_dt)>>>>
         \o _split_shift_by_midnight(NextMidnight(start_dt), end_dt)
    ELSE <<<<start_dt, end_dt>>>>

\* Variant: Sunday paid at the Saturday multiplier.
OtMultiplierSundayAsSaturday(day_index) ==
    IF day_index \in {5, 6} THEN 4 ELSE 3

\* The multiplier in halves: 3 = 150%, 4 = 200%, 5 = 250%.
_ot_multiplier_for_day(day_index) ==
    IF day_index = 5 THEN 4
    ELSE IF day_index = 6 THEN 5
    ELSE 3

(***************************************************************************)
(* calculate_row.  Each local of the function is an operator; CalcRow      *)
(* assembles them in the order of the code.                                *)
(***************************************************************************)
OFF == <<"O", "F", "F">>
ADO == <<"A", "D", "O">>

\* rates={**rates, "OT": ot_enabled, "WOBOD": wobod_enabled}: the caller's
\* table with the two flag keys added.
WithFlags(tbl, ot_enabled, wobod_enabled) ==
    [k \in DOMAIN tbl \cup {"OT", "WOBOD"} |->
        IF k = "OT" THEN ot_enabled
        ELSE IF k = "WOBOD" THEN wobod_enabled
        ELSE tbl[k]]

\* R = rates or rate_constants: an empty dict is falsy.
RatesOrDefault(rates) == IF DOMAIN rates = {} THEN rate_constants ELSE rates

\* R.get(key, False)
GetFlag(R, key) == IF key \in DOMAIN R THEN R[key] ELSE FALSE

rs_on_of(values) == Upper(values[1])

IsOffOrAdo(rs_on) == rs_on \in {OFF, ADO}

\* Variant: no 8-hour default.
WorkedHoursNoDefault(values) == parse_duration(values[5])

\* parse_duration(values[4]) or 8
worked_hours(values) ==
    LET d == parse_duration(values[5])
    IN  IF d # 0 THEN d ELSE 8 * MinutesPerHour

\* time objects are always truthy, only None is not
HaveTimes(AS_ON, AS_OFF, date_obj) ==
    AS_ON # None /\ AS_OFF # None /\ date_obj # None

ShiftStart(date_obj, AS_ON) == date_obj * MinutesPerDay + AS_ON

ShiftEnd(date_obj, AS_ON, AS_OFF) ==
    date_obj * MinutesPerDay + AS_OFF
    + (IF AS_OFF < AS_ON THEN MinutesPerDay ELSE 0)

\* floor(worked_hours) * rate, rounded to cents
penalty_rate(R, penalty_value, worked) ==
    LET penalty_hours == worked \div MinutesPerHour
    IN  IF penalty_value = "Afternoon"
        THEN Round(penalty_hours * R["Afternoon Shift"], 1000)
        ELSE IF penalty_value = "Night"
        THEN Round(penalty_hours * R["Night Shift"], 1000)
        ELSE IF penalty_value = "Morning"
        THEN Round(penalty_hours * R["Early Morning"], 1000)
        ELSE 0

special_loading(R, special_value) ==
    IF special_value = "Yes" THEN Round(R["Special Loading"], 1000) ELSE 0

sick_rate(R, sick) ==
    IF sick THEN Round(8 * R["Sick With MC"], 1000) ELSE 0

AnyAdo(values) == \E i \in 1..Len(values) : Upper(values[i]) = ADO

\* Variant: only ADO suppresses the worked-hours pay, OFF does not.
BaseDailyRatePaysOff(rs_on, values, worked, ordinary) ==
    (IF rs_on # ADO THEN RoundMul(worked, ordinary, 60000) ELSE 0)
    + (IF AnyAdo(values) THEN Round(4 * ordinary, 1000) ELSE 0)

\* daily_rate before the OT-shift block: worked hours at ordinary unless
\* rs_on is OFF/ADO, plus 4 h ordinary when any field is "ADO".
base_daily_rate(rs_on, values, worked, ordinary) ==
    (IF ~IsOffOrAdo(rs_on) THEN RoundMul(worked, ordinary, 60000) ELSE 0)
    + (IF AnyAdo(values) THEN Round(4 * ordinary, 1000) ELSE 0)

\* h = round(_hours_between(s, e), 2), in hundredths of an hour
SegmentHours2(s, e) == Round(_hours_between(s, e) * 100, MinutesPerHour)

\* Variant: Sunday segments loaded at the Saturday rate.
SegmentLoadingRateSatOnly(R, dow) ==
    IF dow \in {5, 6} THEN R["Sat Loading 50%"] ELSE 0

SegmentLoadingRate(R, dow) ==
    IF dow = 5 THEN R["Sat Loading 50%"]
    ELSE IF dow = 6 THEN R["Sun Loading 100%"]
    ELSE 0

\* total_load over the segments, in cents (quotient and remainder by 1e5 of
\* the sum of hundredths of hours * rate)
RECURSIVE TotalLoad(_, _)
TotalLoad(R, segments) ==
    IF segments = <<>> THEN [q |-> 0, r |-> 0]
    ELSE LET s == Head(segments)[1]
             e == Head(segments)[2]
         IN  WideAdd(WideMul(SegmentHours2(s, e),
                             SegmentLoadingRate(R, Weekday(s)), 100000),
                     TotalLoad(R, Tail(segments)))

\* loading before the OT-shift block
weekend_loading(R, rs_on, ot_shift_flag, AS_ON, AS_OFF, date_obj, day, worked) ==
    IF ~IsOffOrAdo(rs_on) /\ ~ot_shift_flag
    THEN IF HaveTimes(AS_ON, AS_OFF, date_obj)
         THEN WideRound(TotalLoad(R, _split_shift_by_midnight(
                            ShiftStart(date_obj, AS_ON),
                            ShiftEnd(date_obj, AS_ON, AS_OFF))), 100000)
         ELSE IF day = "Saturday"
              THEN RoundMul(worked, R["Sat Loading 50%"], 60000)
              ELSE IF day = "Sunday"
              THEN RoundMul(worked, R["Sun Loading 100%"], 60000)
              ELSE 0
    ELSE 0

\* 1) daily OT (unit based), only when the OT tickbox is not ticked
ot_daily_pay(R, rs_on, ot_shift_flag, unit_val, day, penalty_value, ordinary) ==
    IF ot_shift_flag THEN 0
    ELSE IF rs_on = ADO /\ unit_val >= 0
    THEN Round(unit_val * R["ADO Adjustment"], 1000)
    ELSE IF ~IsOffOrAdo(rs_on) /\ unit_val >= 0
    THEN IF day \in {"Saturday", "Sunday"}
         THEN Round(unit_val * R["OT 200%"], 1000)
         ELSE Round(unit_val * R["OT 150%"], 1000)
    ELSE IF day = "Saturday"
    THEN Round(unit_val * (R["Sat Loading 50%"] + ordinary), 1000)
    ELSE IF day = "Sunday"
    THEN Round(unit_val * (R["Sun Loading 100%"] + ordinary), 1000)
    ELSE IF penalty_value \in {"Afternoon", "Morning"}
    THEN Round(unit_val * (R["Afternoon Shift"] + ordinary), 1000)
    ELSE IF penalty_value = "Night"
    THEN Round(unit_val * (R["Night Shift"] + ordinary), 1000)
    ELSE Round(unit_val * ordinary, 1000)

\* total_ot over the segments, with the common factor ordinary taken out:
\* the sum of minutes * multiplier-in-halves
RECURSIVE TotalOt(_)
TotalOt(segments) ==
    IF segments = <<>> THEN 0
    ELSE LET s == Head(segments)[1]
             e == Head(segments)[2]
         IN  _hours_between(s, e) * _ot_multiplier_for_day(Weekday(s))
             + TotalOt(Tail(segments))

FallbackMultiplier(day) ==
    IF day = "Sunday" THEN 5 ELSE IF day = "Saturday" THEN 4 ELSE 3

\* 2) OT shift pay (tickbox): the whole shift at the OT rate of each day
ot_shift_pay(rs_on, ot_shift_flag, AS_ON, AS_OFF, date_obj, day, worked, ordinary) ==
    IF ot_shift_flag /\ ~IsOffOrAdo(rs_on)
    THEN IF HaveTimes(AS_ON, AS_OFF, date_obj)
         THEN RoundMul(TotalOt(_split_shift_by_midnight(
                           ShiftStart(date_obj, AS_ON),
                           ShiftEnd(date_obj, AS_ON, AS_OFF))), ordinary, 120000)
         ELSE RoundMul(worked * FallbackMultiplier(day), ordinary, 120000)
    ELSE 0

\* In OT-shift mode daily_rate and loading are reset to 0.
SuppressedByOtShift(rs_on, ot_shift_flag, amount) ==
    IF ot_shift_flag /\ ~IsOffOrAdo(rs_on) THEN 0 ELSE amount

\* Variant: WOBOD paid without the OT tickbox.
WobodWithoutOt(rs_on, ot_shift_flag, wobod_flag, worked, ordinary) ==
    IF wobod_flag /\ ~IsOffOrAdo(rs_on)
    THEN RoundMul(worked, ordinary, 120000)
    ELSE 0

\* 3) WOBOD: 50% ordinary * worked_hours on an OT shift
wobod_extra(rs_on, ot_shift_flag, wobod_flag, worked, ordinary) ==
    IF wobod_flag /\ ot_shift_flag /\ ~IsOffOrAdo(rs_on)
    THEN RoundMul(worked, ordinary, 120000)
    ELSE 0

ot_total_for_column(otd, ots, wobod) == otd + ots + wobod

\* Variant: WOBOD added on top of a column total that already holds it.
DailyCountWobodTwice(otd, ots, wobod, penalty, special, sickpay, daily, loading) ==
    ot_total_for_column(otd, ots, wobod) + wobod
    + penalty + special + sickpay + daily + loading

daily_count(otd, ots, wobod, penalty, special, sickpay, daily, loading) ==
    otd + ots + wobod + penalty + special + sickpay + daily + loading

\* The keys of R that the call subscripts (R[...]) on its path; a key that
\* is not in R raises KeyError.
KeysRead(rs_on, ot_shift_flag, AS_ON, AS_OFF, date_obj, day, sick, penalty_value, special_value, unit_val) ==
    LET segdows ==
            LET segs == _split_shift_by_midnight(ShiftStart(date_obj, AS_ON),
                            ShiftEnd(date_obj, AS_ON, AS_OFF))
            IN  {Weekday(segs[i][1]) : i \in 1..Len(segs)}
    IN  {"Ordinary Hours"}
        \cup (IF penalty_value = "Afternoon" THEN {"Afternoon Shift"}
              ELSE IF penalty_value = "Night" THEN {"Night Shift"}
              ELSE IF penalty_value = "Morning" THEN {"Early Morning"}
              ELSE {})
        \cup (IF special_value = "Yes" THEN {"Special Loading"} ELSE {})
        \cup (IF sick THEN {"Sick With MC"} ELSE {})
        \cup (IF ~IsOffOrAdo(rs_on) /\ ~ot_shift_flag
              THEN IF HaveTimes(AS_ON, AS_OFF, date_obj)
                   THEN (IF 5 \in segdows THEN {"Sat Loading 50%"} ELSE {})
                        \cup (IF 6 \in segdows THEN {"Sun Loading 100%"} ELSE {})
                   ELSE IF day = "Saturday" THEN {"Sat Loading 50%"}
                   ELSE IF day = "Sunday" THEN {"Sun Loading 100%"}
                   ELSE {}
              ELSE {})
        \cup (IF ot_shift_flag THEN {}
              ELSE IF rs_on = ADO /\ unit_val >= 0 THEN {"ADO Adjustment"}
              ELSE IF ~IsOffOrAdo(rs_on) /\ unit_val >= 0
              THEN IF day \in {"Saturday", "Sunday"}
                   THEN {"OT 200%"} ELSE {"OT 150%"}
              ELSE IF day = "Saturday" THEN {"Sat Loading 50%"}
              ELSE IF day = "Sunday" THEN {"Sun Loading 100%"}
              ELSE IF penalty_value \in {"Afternoon", "Morning"}
              THEN {"Afternoon Shift"}
              ELSE IF penalty_value = "Night" THEN {"Night Shift"}
              ELSE {})

\* The call: the returned 7-tuple as a record, with the locals the tuple
\* folds together (ot_daily_pay, ot_shift_pay, wobod_extra, worked_hours)
\* kept beside it, or the KeyError the call ends in.
calculate_row(day, date_obj, values, sick, penalty_value, special_value, unit_val, rates) ==
    LET R == RatesOrDefault(rates)
        ot_shift_flag == GetFlag(R, "OT")
        wobod_flag == GetFlag(R, "WOBOD")
        rs_on == rs_on_of(values)
        worked == worked_hours(values)
        AS_ON == parse_time(values[2])
        AS_OFF == parse_time(values[4])
    IN  IF ~(KeysRead(rs_on, ot_shift_flag, AS_ON, AS_OFF, date_obj, day,
                      sick, penalty_value, special_value, unit_val)
             \subseteq DOMAIN R)
        THEN [status |-> "KeyError"]
        ELSE
        LET ordinary == R["Ordinary Hours"]
            pen == penalty_rate(R, penalty_value, worked)
            spl == special_loading(R, special_value)
            sck == sick_rate(R, sick)
            daily == SuppressedByOtShift(rs_on, ot_shift_flag,
                        base_daily_rate(rs_on, values, worked, ordinary))
            load == SuppressedByOtShift(rs_on, ot_shift_flag,
                        weekend_loading(R, rs_on, ot_shift_flag, AS_ON, AS_OFF,
                                        date_obj, day, worked))
            otd == ot_daily_pay(R, rs_on, ot_shift_flag, unit_val, day,
                                penalty_value, ordinary)
            ots == ot_shift_pay(rs_on, ot_shift_flag, AS_ON, AS_OFF, date_obj,
                                day, worked, ordinary)
            wob == wobod_extra(rs_on, ot_shift_flag, wobod_flag, worked, ordinary)
        IN  [status |-> "ok",
             overtimeTotal |-> ot_total_for_column(otd, ots, wob),
             penaltyPay |-> pen,
             specialLoadingPay |-> spl,
             sickPay |-> sck,
             ordinaryBasePay |-> daily,
             weekendLoadingPay |-> load,
             dailyTotal |-> daily_count(otd, ots, wob, pen, spl, sck, daily, load),
             ot_daily_pay |-> otd,
             ot_shift_pay |-> ots,
             wobod_extra |-> wob,
             worked_hours |-> worked]

(***************************************************************************)
(* Inputs.                                                                 *)
(***************************************************************************)
MaxUnit == 1
MaxDays == 2

EMPTY == <<>>
T0700 == <<"0", "7", "0", "0">>
T1500 == <<"1", "5", "0", "0">>
T22c00 == <<"2", "2", ":", "0", "0">>
T2340sp == <<"2", "3", "4", "0", " ">>
T00c00 == <<"0", "0", ":", "0", "0">>
T0233 == <<"0", "2", "3", "3">>
T23c00 == <<"2", "3", ":", "0", "0">>
D0c00 == <<"0", ":", "0", "0">>
D1c00 == <<"1", ":", "0", "0">>
D730 == <<"7", "3", "0">>
D8 == <<"8">>
off == <<"o", "f", "f">>

RsOns == {T0700, off, ADO}
ClockIns == {EMPTY, T22c00, T2340sp}
RsOffs == {T1500, ADO}
ClockOuts == {EMPTY, T00c00, T0233, T23c00}
Durations == {EMPTY, D0c00, D1c00, D730, D8}
Penalties == {"", "Afternoon", "Night", "Morning"}
Specials == {"Yes", "No"}
Units == -1..MaxUnit

\* Friday, Saturday, Sunday of one week, or no date
Dates == {None, 4, 5, 6}
DayNames == <<"Monday", "Tuesday", "Wednesday", "Thursday", "Friday",
              "Saturday", "Sunday">>
DayLabels(date_obj) ==
    IF date_obj = None THEN {"Friday", "Saturday", "Sunday"}
    ELSE {DayNames[(date_obj % 7) + 1]}

\* Rates saved through the rate form of Home.py: 50.00 / 5.00 / 6.00
CUSTOM_BASE_RATES ==
    [ordinary |-> 5000000, afternoon_penalty |-> 500000, night_penalty |-> 600000]

Restrict(tbl, keys) == [k \in keys |-> tbl[k]]

\* Complete tables, tables lacking one entry, and the empty table
Tables(base) ==
    {build_rate_constants(base), Restrict(build_rate_constants(base), {})}
    \cup {Restrict(build_rate_constants(base), RateNames \ {k}) : k \in RateNames}

SampleMinutes == {0, 1, 719, 1439}
SampleTimes == {d * MinutesPerDay + m : d \in 0..MaxDays, m \in SampleMinutes}

VARIABLES op, args, ret, pc
vars == <<op, args, ret, pc>>

NoRet == [status |-> "none"]

\* calculate_row on a complete table carrying the two flags
InitCalc ==
    /\ op = "calculate_row"
    /\ \E date_obj \in Dates, rs_on \in RsOns, as_on \in ClockIns,
          rs_off \in RsOffs, as_off \in ClockOuts, worked \in Durations,
          sick \in BOOLEAN, penalty_value \in Penalties,
          special_value \in Specials, unit_val \in Units,
          ot_enabled \in BOOLEAN, wobod_enabled \in BOOLEAN :
         \E day \in DayLabels(date_obj) :
            args = [day |-> day, date_obj |-> date_obj,
                    values |-> <<rs_on, as_on, rs_off, as_off, worked, EMPTY>>,
                    sick |-> sick, penalty_value |-> penalty_value,
                    special_value |-> special_value, unit_val |-> unit_val,
                    rates |-> WithFlags(rate_constants, ot_enabled, wobod_enabled)]

\* calculate_row on complete and incomplete tables, with and without flags
InitRates ==
    /\ op = "calculate_row"
    /\ \E base \in {DEFAULT_BASE_RATES, CUSTOM_BASE_RATES},
          rs_on \in {T0700, ADO}, sick \in BOOLEAN,
          penalty_value \in Penalties, special_value \in Specials,
          unit_val \in {-1, 1} :
         \E tbl \in Tables(base) :
            \E rates \in {tbl} \cup {WithFlags(tbl, o, w) : o, w \in BOOLEAN} :
               args = [day |-> "Saturday", date_obj |-> 5,
                       values |-> <<rs_on, T22c00, T1500, T0233, D1c00, EMPTY>>,
                       sick |-> sick, penalty_value |-> penalty_value,
                       special_value |-> special_value, unit_val |-> unit_val,
                       rates |-> rates]

InitSplit ==
    /\ op = "_split_shift_by_midnight"
    /\ \E start_dt \in SampleTimes, end_dt \in SampleTimes :
          /\ start_dt <= end_dt
          /\ args = [start_dt |-> start_dt, end_dt |-> end_dt]

Init ==
    /\ pc = "call"
    /\ ret = NoRet
    /\ (InitCalc \/ InitRates \/ InitSplit)

CallCalculateRow ==
    /\ pc = "call"
    /\ op = "calculate_row"
    /\ ret' = calculate_row(args.day, args.date_obj, args.values, args.sick,
                            args.penalty_value, args.special_value,
                            args.unit_val, args.rates)
    /\ pc' = "done"
    /\ UNCHANGED <<op, args>>

CallSplit ==
    /\ pc = "call"
    /\ op = "_split_shift_by_midnight"
    /\ ret' = [status |-> "ok",
               segments |-> _split_shift_by_midnight(args.start_dt, args.end_dt)]
    /\ pc' = "done"
    /\ UNCHANGED <<op, args>>

Next == CallCalculateRow \/ CallSplit

Spec == Init /\ [][Next]_vars

(***************************************************************************)
(* Properties.  The views below read the call's inputs the way the code    *)
(* does.                                                                   *)
(***************************************************************************)
CalcDone == op = "calculate_row" /\ pc = "done"
CalcOk == CalcDone /\ ret.status = "ok"
SplitDone == op = "_split_shift_by_midnight" /\ pc = "done"

InRsOn == rs_on_of(args.values)
InOt == GetFlag(RatesOrDefault(args.rates), "OT")
InWobod == GetFlag(RatesOrDefault(args.rates), "WOBOD")
InOrdinary == RatesOrDefault(args.rates)["Ordinary Hours"]
InClockIn == parse_time(args.values[2])
InClockOut == parse_time(args.values[4])
InHaveTimes == HaveTimes(InClockIn, InClockOut, args.date_obj)
InDuration == ParseDuration(args.values[5])
InSegments ==
    _split_shift_by_midnight(ShiftStart(args.date_obj, InClockIn),
                             ShiftEnd(args.date_obj, InClockIn, InClockOut))

RECURSIVE SumDurations(_)
SumDurations(segs) ==
    IF segs = <<>> THEN 0
    ELSE (Head(segs)[2] - Head(segs)[1]) + SumDurations(Tail(segs))

\* C1: dailyTotal is the sum of the other six returned fields, and
\* overtimeTotal (daily OT + OT shift + WOBOD) is where WOBOD is counted, once.
C1_DailyTotalIsSum ==
    CalcOk =>
        /\ ret.dailyTotal = ret.overtimeTotal + ret.penaltyPay
                            + ret.specialLoadingPay + ret.sickPay
                            + ret.ordinaryBasePay + ret.weekendLoadingPay
        /\ ret.overtimeTotal = ret.ot_daily_pay + ret.ot_shift_pay + ret.wobod_extra

C1_Witness ==
    /\ CalcOk
    /\ ret.wobod_extra > 0
    /\ ret.ot_shift_pay > 0
    /\ ret.penaltyPay > 0
    /\ ret.specialLoadingPay > 0
    /\ ret.sickPay > 0

\* C2: for start < end the segments partition the shift: the first starts
\* at start, the last ends at end, each ends where the next starts, none runs
\* backwards, and the durations sum to end - start.
C2_SegmentsPartitionShift ==
    (SplitDone /\ args.start_dt < args.end_dt) =>
        LET segs == ret.segments
        IN  /\ Len(segs) >= 1
            /\ segs[1][1] = args.start_dt
            /\ segs[Len(segs)][2] = args.end_dt
            /\ \A i \in 1..(Len(segs) - 1) : segs[i][2] = segs[i + 1][1]
            /\ \A i \in 1..Len(segs) : segs[i][1] <= segs[i][2]
            /\ SumDurations(segs) = args.end_dt - args.start_dt

C2_Witness ==
    /\ SplitDone
    /\ args.start_dt < args.end_dt
    /\ Len(ret.segments) >= 3
    /\ \A i \in 1..Len(ret.segments) : ret.segments[i][1] < ret.segments[i][2]

\* C8 as stated: every segment has start and end on the same calendar date
\* and end strictly later than start.
C8_Original ==
    (SplitDone /\ args.start_dt < args.end_dt) =>
        \A i \in 1..Len(ret.segments) :
            /\ DateOf(ret.segments[i][1]) = DateOf(ret.segments[i][2])
            /\ ret.segments[i][2] > ret.segments[i][1]

\* C8 as amended: every segment ends no later than the midnight that closes
\* its start's calendar date (a segment that reaches that midnight carries the
\* next date as its end), every segment but the last is non-empty, and the
\* last is empty exactly when end falls on a midnight after start's date.
C8_SegmentsWithinOneDay ==
    (SplitDone /\ args.start_dt < args.end_dt) =>
        LET segs == ret.segments
            n == Len(segs)
        IN  /\ \A i \in 1..n :
                 /\ segs[i][1] <= segs[i][2]
                 /\ segs[i][2] <= (DateOf(segs[i][1]) + 1) * MinutesPerDay
                 /\ (DateOf(segs[i][1]) # DateOf(segs[i][2])
                       => segs[i][2] % MinutesPerDay = 0)
            /\ \A i \in 1..(n - 1) : segs[i][1] < segs[i][2]
            /\ (segs[n][1] = segs[n][2]) <=>
                  (args.end_dt % MinutesPerDay = 0
                   /\ DateOf(args.start_dt) < DateOf(args.end_dt))

C8_Witness ==
    /\ SplitDone
    /\ args.start_dt < args.end_dt
    /\ Len(ret.segments) >= 2
    /\ ret.segments[Len(ret.segments)][1] = ret.segments[Len(ret.segments)][2]

\* The multiplier the claim names, in halves: 1.5 weekday, 2.0 Saturday,
\* 2.5 Sunday.
ClaimedMultiplier(dow) == IF dow = 6 THEN 5 ELSE IF dow = 5 THEN 4 ELSE 3

\* Sum over the segments of minutes * (multiplier-in-halves - less).
RECURSIVE ClaimedOtMinutes(_, _)
ClaimedOtMinutes(segs, less) ==
    IF segs = <<>> THEN 0
    ELSE (Head(segs)[2] - Head(segs)[1])
           * (ClaimedMultiplier(Weekday(Head(segs)[1])) - less)
         + ClaimedOtMinutes(Tail(segs), less)

OtShiftCase == CalcOk /\ InOt /\ ~IsOffOrAdo(InRsOn) /\ InHaveTimes

OneHourOnSunday ==
    /\ args.date_obj = 6
    /\ InClockIn = 22 * MinutesPerHour
    /\ InClockOut = 23 * MinutesPerHour
    /\ InOrdinary = DEFAULT_BASE_RATES.ordinary

\* C3 as stated: OT pay is the sum over the segments of
\* hours * ordinary * (multiplier - 1); one Sunday hour at 49.81842 is 74.73.
C3_Original ==
    OtShiftCase =>
        /\ ret.ot_shift_pay
             = RoundMul(ClaimedOtMinutes(InSegments, 2), InOrdinary, 120000)
        /\ (OneHourOnSunday => ret.ot_shift_pay = 7473)

\* C3 as amended: OT pay is the sum over the segments of
\* hours * ordinary * multiplier (the full multiplier, ordinary pay being
\* suppressed), rounded to cents; one Sunday hour at 49.81842 is 124.55.
C3_OtPayAtFullMultiplier ==
    OtShiftCase =>
        /\ ret.ot_shift_pay
             = RoundMul(ClaimedOtMinutes(InSegments, 0), InOrdinary, 120000)
        /\ ret.ot_daily_pay = 0
        /\ ret.overtimeTotal = ret.ot_shift_pay + ret.wobod_extra
        /\ (OneHourOnSunday => ret.ot_shift_pay = 12455)

C3_Witness ==
    /\ OtShiftCase
    /\ args.date_obj = 5
    /\ Len(InSegments) = 2
    /\ InSegments[2][1] < InSegments[2][2]
    /\ ret.ot_shift_pay > 0

\* The loading rate the claim names: 0.5 * ordinary on Saturday,
\* 1.0 * ordinary on Sunday, none on a weekday.  (The ordinary rates of the
\* model are even in 1e-5 units, so the half is exact.)
ClaimedLoadingRate(dow) ==
    IF dow = 5 THEN InOrdinary \div 2 ELSE IF dow = 6 THEN InOrdinary ELSE 0

ClaimedLabelRate(day) ==
    IF day = "Saturday" THEN InOrdinary \div 2
    ELSE IF day = "Sunday" THEN InOrdinary
    ELSE 0

\* Sum over the segments of exact hours * rate, as quotient and remainder
\* by 60000 (minutes * rate / 60000 is cents).
RECURSIVE ClaimedLoadExact(_)
ClaimedLoadExact(segs) ==
    IF segs = <<>> THEN [q |-> 0, r |-> 0]
    ELSE WideAdd(WideMul(Head(segs)[2] - Head(segs)[1],
                         ClaimedLoadingRate(Weekday(Head(segs)[1])), 60000),
                 ClaimedLoadExact(Tail(segs)))

\* The same sum with each segment's hours first rounded to 2 decimals.
RECURSIVE ClaimedLoadRounded(_)
ClaimedLoadRounded(segs) ==
    IF segs = <<>> THEN [q |-> 0, r |-> 0]
    ELSE WideAdd(WideMul(Round((Head(segs)[2] - Head(segs)[1]) * 100, 60),
                         ClaimedLoadingRate(Weekday(Head(segs)[1])), 100000),
                 ClaimedLoadRounded(Tail(segs)))

LoadingCase == CalcOk /\ ~IsOffOrAdo(InRsOn) /\ ~InOt

\* C4 as stated: on a day whose rostered-on field is not OFF/ADO with OT not
\* enabled, weekendLoadingPay is the sum over the segments of
\* segmentHours * loadingRate (to the cent) when times and date are
\* available, workedHours * the label's rate otherwise; 0 in every other case.
C4_Original ==
    /\ LoadingCase =>
          ret.weekendLoadingPay =
             IF InHaveTimes
             THEN WideRound(ClaimedLoadExact(InSegments), 60000)
             ELSE RoundMul(ret.worked_hours, ClaimedLabelRate(args.day), 60000)
    /\ (CalcOk /\ ~LoadingCase) => ret.weekendLoadingPay = 0

\* C4 as amended: the same, with each segment's hours rounded to 2 decimals
\* before they are multiplied by the segment's loading rate.
C4_LoadingOverRoundedSegmentHours ==
    /\ LoadingCase =>
          ret.weekendLoadingPay =
             IF InHaveTimes
             THEN WideRound(ClaimedLoadRounded(InSegments), 100000)
             ELSE RoundMul(ret.worked_hours, ClaimedLabelRate(args.day), 60000)
    /\ (CalcOk /\ ~LoadingCase) => ret.weekendLoadingPay = 0

C4_Witness ==
    /\ LoadingCase
    /\ InHaveTimes
    /\ args.date_obj = 5
    /\ Len(InSegments) = 2
    /\ InSegments[2][1] < InSegments[2][2]
    /\ ret.weekendLoadingPay > 0
    /\ ret.weekendLoadingPay # WideRound(ClaimedLoadExact(InSegments), 60000)

OffCase == CalcOk /\ InRsOn = OFF /\ ~AnyAdo(args.values) /\ ~args.sick

PenaltyUnset == args.penalty_value \notin {"Afternoon", "Night", "Morning"}
SpecialUnset == args.special_value # "Yes"

\* C5 as stated: on an OFF day (no ADO, sick unset) ordinaryBasePay,
\* weekendLoadingPay and overtimeTotal are 0 for every unit value, and
\* dailyTotal is penalty + special + sick, so 0 when those are unset.
C5_Original ==
    OffCase =>
        /\ ret.ordinaryBasePay = 0
        /\ ret.weekendLoadingPay = 0
        /\ ret.overtimeTotal = 0
        /\ ret.dailyTotal = ret.penaltyPay + ret.specialLoadingPay + ret.sickPay
        /\ (PenaltyUnset /\ SpecialUnset => ret.dailyTotal = 0)

\* What the unit-based fallback adds to ordinary on an OFF day.
ClaimedOffAdder ==
    LET R == RatesOrDefault(args.rates)
    IN  IF args.day \in {"Saturday", "Sunday"} THEN ClaimedLabelRate(args.day)
        ELSE IF args.penalty_value \in {"Afternoon", "Morning"}
        THEN R["Afternoon Shift"]
        ELSE IF args.penalty_value = "Night" THEN R["Night Shift"]
        ELSE 0

\* C5 as amended: on an OFF day (no ADO, sick unset) ordinaryBasePay,
\* weekendLoadingPay and sickPay are 0; overtimeTotal is 0 when OT is enabled
\* or the unit value is 0, and otherwise is unit value * (ordinary + the
\* day's loading or the penalty's rate) rounded to cents; dailyTotal is
\* overtimeTotal + penalty + special, so it is 0 when penalty and special are
\* unset and overtimeTotal is 0.
C5_OffDayPaysOnlyUnitFallback ==
    OffCase =>
        /\ ret.ordinaryBasePay = 0
        /\ ret.weekendLoadingPay = 0
        /\ ret.sickPay = 0
        /\ (InOt \/ args.unit_val = 0) => ret.overtimeTotal = 0
        /\ ~InOt => ret.overtimeTotal
                      = Round(args.unit_val * (InOrdinary + ClaimedOffAdder), 1000)
        /\ ret.dailyTotal = ret.overtimeTotal + ret.penaltyPay
                            + ret.specialLoadingPay
        /\ (PenaltyUnset /\ SpecialUnset /\ ret.overtimeTotal = 0)
              => ret.dailyTotal = 0

C5_Witness ==
    /\ OffCase
    /\ ~InOt
    /\ args.unit_val = 1
    /\ ret.overtimeTotal > 0
    /\ ret.dailyTotal = ret.overtimeTotal

\* C6: whichever field of values carries "ADO", ordinaryBasePay is
\* round(4 * ordinary, 2) (the adjustment once, worked-hours pay suppressed)
\* and weekendLoadingPay is 0.
C6_AdoAppliedOnceAndSuppresses ==
    (CalcOk /\ AnyAdo(args.values)) =>
        /\ ret.ordinaryBasePay = Round(4 * InOrdinary, 1000)
        /\ ret.weekendLoadingPay = 0

WobodCase == CalcOk /\ InWobod /\ InOt /\ ~IsOffOrAdo(InRsOn)

OneHourEntered ==
    InDuration.minutes = MinutesPerHour
    /\ InOrdinary = DEFAULT_BASE_RATES.ordinary

\* C7 as stated: WOBOD pay is 0.5 * ordinary * the clock-in to clock-out
\* span, whatever the entered duration; 0 in every other case.
C7_Original ==
    /\ (WobodCase /\ InHaveTimes) =>
          ret.wobod_extra
             = RoundMul(SumDurations(InSegments), InOrdinary, 120000)
    /\ (CalcOk /\ ~WobodCase) => ret.wobod_extra = 0

\* C7 as amended: WOBOD pay is 0.5 * ordinary * workedHours rounded to
\* cents, workedHours being the entered duration, or 8 when that is blank,
\* unparseable or zero, whatever the clock times; one entered hour at
\* 49.81842 is 24.91; 0 in every other case.
C7_WobodOverWorkedHours ==
    /\ WobodCase =>
          /\ ret.wobod_extra
                = RoundMul(IF InDuration.minutes # 0 THEN InDuration.minutes
                           ELSE 8 * MinutesPerHour,
                           InOrdinary, 120000)
          /\ (OneHourEntered => ret.wobod_extra = 2491)
    /\ (CalcOk /\ ~WobodCase) => ret.wobod_extra = 0

C7_Witness ==
    /\ WobodCase
    /\ InHaveTimes
    /\ OneHourEntered
    /\ SumDurations(InSegments) # InDuration.minutes
    /\ ret.wobod_extra = 2491

OrdinaryCase ==
    CalcOk /\ ~IsOffOrAdo(InRsOn) /\ ~AnyAdo(args.values) /\ ~InOt

C10_IncompleteTableRaises ==
    (CalcDone /\ ~(RateNames \subseteq DOMAIN args.rates))
        => ret.status = "KeyError"

====
